---- MODULE Spec2Model ----
(***************************************************************************)
(* Model of cspro/SQLite/Encryption.h: namespace SqliteEncryption.         *)
(*                                                                         *)
(* The header wraps the two key primitives of the SQLite Encryption        *)
(* Extension (SEE).  Which body of each function is compiled is decided by *)
(* the preprocessor symbol SQLITE_HAS_CODEC.  The model has one behaviour  *)
(* family per build: the symbol is chosen in Init and never changes.       *)
(*                                                                         *)
(* The external primitives ::sqlite3_key and ::sqlite3_rekey are modelled  *)
(* as a recording double: it logs every invocation with the arguments it   *)
(* received and the status it returned, and it owns the encryption state   *)
(* of the connections.  The caller's view of every wrapper call (what was  *)
(* passed, what came back) is kept in history.                             *)
(***************************************************************************)
EXTENDS Integers, Sequences, FiniteSets, TLC

\* Number of wrapper calls made by the caller in one behaviour.
MaxCalls == 3

\* Null pointer (sqlite3* db and const void* pKey may both be null).
NULL == "NULL"

\* Connection handles a caller may pass as db.
Handles == {NULL, "db1"}

\* The caller-owned key buffer (pKey, when not null).
KeyBuffers == {"buf1"}

\* (pKey, nKey) pairs a caller may pass: null key, empty key, 2-byte key.
KeyArgs == {<<NULL, 0>>, <<"buf1", 0>>, <<"buf1", 2>>}

\* Status codes the external primitive may return
\* (SQLITE_OK, SQLITE_ERROR, SQLITE_NOTADB).
StatusCodes == {0, 1, 26}

NoSeeExceptionMessage == "SQLite encryption is not enabled in this CSPro build."

VARIABLES
    SQLITE_HAS_CODEC,  \* build flag: TRUE iff the codec is compiled in
    history,           \* caller's view: sequence of calls with their outcomes
    codecLog,          \* double's view: invocations of the external primitives
    conn,              \* external engine: encryption key of each connection
    keyBuf,            \* caller's memory: contents of each key buffer
    touched            \* objects (handles, buffers) dereferenced so far

vars == <<SQLITE_HAS_CODEC, history, codecLog, conn, keyBuf, touched>>

codecVars == <<codecLog, conn, keyBuf, touched>>

----------------------------------------------------------------------------
(* The wrapper functions.  rc is the status the external primitive returns *)
(* if this call reaches it.  Each function yields the primitive            *)
(* invocations it makes (calls) and how it ends (outcome).                 *)

Return(v) == [kind |-> "return", value |-> v]

Throw(msg) == [kind |-> "throw", type |-> "CSProException", what |-> msg]

Invoke(prim, db, pKey, nKey) ==
    [prim |-> prim, db |-> db, pKey |-> pKey, nKey |-> nKey]

\* Variant of IsEnabled with a defect: the capability is reported unconditionally.
IsEnabled_Always == TRUE

IsEnabled == IF SQLITE_HAS_CODEC THEN TRUE ELSE FALSE

\* Variants of sqlite3_key with a defect, used to test the properties below.
sqlite3_key_Ungated(db, pKey, nKey, rc) ==
    [calls   |-> <<Invoke("sqlite3_key", db, pKey, nKey)>>,
     outcome |-> Return(rc)]

sqlite3_key_ForwardThenThrow(db, pKey, nKey, rc) ==
    IF SQLITE_HAS_CODEC
    THEN [calls   |-> <<Invoke("sqlite3_key", db, pKey, nKey)>>,
          outcome |-> Return(rc)]
    ELSE [calls   |-> <<Invoke("sqlite3_key", db, pKey, nKey)>>,
          outcome |-> Throw(NoSeeExceptionMessage)]

sqlite3_key_TranslatesFailure(db, pKey, nKey, rc) ==
    IF SQLITE_HAS_CODEC
    THEN [calls   |-> <<Invoke("sqlite3_key", db, pKey, nKey)>>,
          outcome |-> IF rc = 0 THEN Return(rc) ELSE Throw("SQLite key error")]
    ELSE [calls   |-> <<>>,
          outcome |-> Throw(NoSeeExceptionMessage)]

sqlite3_key_Dedup(db, pKey, nKey, rc) ==
    IF SQLITE_HAS_CODEC
    THEN IF \E i \in DOMAIN codecLog :
                /\ codecLog[i].prim = "sqlite3_key" /\ codecLog[i].db = db
                /\ codecLog[i].pKey = pKey /\ codecLog[i].nKey = nKey
         THEN [calls |-> <<>>, outcome |-> Return(0)]
         ELSE [calls   |-> <<Invoke("sqlite3_key", db, pKey, nKey)>>,
               outcome |-> Return(rc)]
    ELSE [calls   |-> <<>>,
          outcome |-> Throw(NoSeeExceptionMessage)]

sqlite3_key(db, pKey, nKey, rc) ==
    IF SQLITE_HAS_CODEC
    THEN [calls   |-> <<Invoke("sqlite3_key", db, pKey, nKey)>>,
          outcome |-> Return(rc)]
    ELSE [calls   |-> <<>>,
          outcome |-> Throw(NoSeeExceptionMessage)]

\* Variants of sqlite3_rekey with a defect.
sqlite3_rekey_Ungated(db, pKey, nKey, rc) ==
    [calls   |-> <<Invoke("sqlite3_rekey", db, pKey, nKey)>>,
     outcome |-> Return(rc)]

sqlite3_rekey_DropsLength(db, pKey, nKey, rc) ==
    IF SQLITE_HAS_CODEC
    THEN [calls   |-> <<Invoke("sqlite3_rekey", db, pKey, 0)>>,
          outcome |-> Return(rc)]
    ELSE [calls   |-> <<>>,
          outcome |-> Throw(NoSeeExceptionMessage)]

sqlite3_rekey_CallsKey(db, pKey, nKey, rc) ==
    IF SQLITE_HAS_CODEC
    THEN [calls   |-> <<Invoke("sqlite3_key", db, pKey, nKey)>>,
          outcome |-> Return(rc)]
    ELSE [calls   |-> <<>>,
          outcome |-> Throw(NoSeeExceptionMessage)]

sqlite3_rekey_OtherMessage(db, pKey, nKey, rc) ==
    IF SQLITE_HAS_CODEC
    THEN [calls   |-> <<Invoke("sqlite3_rekey", db, pKey, nKey)>>,
          outcome |-> Return(rc)]
    ELSE [calls   |-> <<>>,
          outcome |-> Throw("SQLite re-key is not enabled in this CSPro build.")]

sqlite3_rekey(db, pKey, nKey, rc) ==
    IF SQLITE_HAS_CODEC
    THEN [calls   |-> <<Invoke("sqlite3_rekey", db, pKey, nKey)>>,
          outcome |-> Return(rc)]
    ELSE [calls   |-> <<>>,
          outcome |-> Throw(NoSeeExceptionMessage)]

----------------------------------------------------------------------------
(* The external codec (recording double).                                  *)

\* Key bytes the primitive reads from the caller's buffer.
KeyBytes(pKey, nKey) ==
    IF pKey = NULL \/ nKey <= 0 THEN <<>> ELSE SubSeq(keyBuf[pKey], 1, nKey)

\* Encryption state of the connections after one invocation returning rc.
ConnAfterOne(c, call, rc) ==
    IF rc = 0 /\ call.db # NULL
    THEN [c EXCEPT ![call.db] = KeyBytes(call.pKey, call.nKey)]
    ELSE c

RECURSIVE ConnAfter(_, _, _)
ConnAfter(c, calls, rc) ==
    IF calls = <<>> THEN c
    ELSE ConnAfter(ConnAfterOne(c, Head(calls), rc), Tail(calls), rc)

\* Objects the primitive dereferences when invoked.
TouchedBy(calls) ==
    UNION {({calls[i].db} \cup {calls[i].pKey}) \ {NULL} : i \in DOMAIN calls}

\* Log entries for the invocations made during wrapper call number at.
Logged(calls, at, rc) ==
    [i \in DOMAIN calls |->
        [prim |-> calls[i].prim, db |-> calls[i].db, pKey |-> calls[i].pKey,
         nKey |-> calls[i].nKey, rc |-> rc, at |-> at]]

\* The effect of a wrapper result r on the external codec.
Deliver(r, rc) ==
    /\ codecLog' = codecLog \o Logged(r.calls, Len(history) + 1, rc)
    /\ conn' = ConnAfter(conn, r.calls, rc)
    /\ touched' = touched \cup TouchedBy(r.calls)
    /\ keyBuf' = keyBuf

----------------------------------------------------------------------------
(* The caller.                                                             *)

Init ==
    /\ SQLITE_HAS_CODEC \in BOOLEAN
    /\ history = <<>>
    /\ codecLog = <<>>
    /\ conn = [h \in Handles \ {NULL} |-> <<>>]
    /\ keyBuf = [b \in KeyBuffers |-> <<17, 34>>]
    /\ touched = {}

CallIsEnabled ==
    /\ Len(history) < MaxCalls
    /\ history' = Append(history, [op |-> "IsEnabled", outcome |-> Return(IsEnabled)])
    /\ UNCHANGED <<SQLITE_HAS_CODEC, codecVars>>

CallSetKey ==
    /\ Len(history) < MaxCalls
    /\ \E db \in Handles, k \in KeyArgs, rc \in StatusCodes :
         LET r == sqlite3_key(db, k[1], k[2], rc) IN
         /\ Deliver(r, rc)
         /\ history' = Append(history,
                [op |-> "SetKey", db |-> db, pKey |-> k[1], nKey |-> k[2],
                 outcome |-> r.outcome])
    /\ UNCHANGED SQLITE_HAS_CODEC

CallReKey ==
    /\ Len(history) < MaxCalls
    /\ \E db \in Handles, k \in KeyArgs, rc \in StatusCodes :
         LET r == sqlite3_rekey(db, k[1], k[2], rc) IN
         /\ Deliver(r, rc)
         /\ history' = Append(history,
                [op |-> "ReKey", db |-> db, pKey |-> k[1], nKey |-> k[2],
                 outcome |-> r.outcome])
    /\ UNCHANGED SQLITE_HAS_CODEC

Next == CallIsEnabled \/ CallSetKey \/ CallReKey

Spec == Init /\ [][Next]_vars

----------------------------------------------------------------------------
(* Properties.  They are stated over the caller's view (history) and the   *)
(* codec double's view (codecLog, conn, touched) only.                     *)

IsKeyOp(e) == e.op \in {"SetKey", "ReKey"}

KeyCallIdx == {i \in DOMAIN history : IsKeyOp(history[i])}

EnabledCallIdx == {i \in DOMAIN history : history[i].op = "IsEnabled"}

\* Invocations of the external primitives made during wrapper call i.
ForwardsOf(i) == SelectSeq(codecLog, LAMBDA e : e.at = i)

\* The arguments of an invocation or of a wrapper call.
ArgsOf(e) == <<e.db, e.pKey, e.nKey>>

\* The step is a wrapper call of one of the key operations.
KeyCallStep ==
    /\ Len(history') = Len(history) + 1
    /\ IsKeyOp(history'[Len(history')])

\* The step is a call of IsEnabled.
EnabledCallStep ==
    /\ Len(history') = Len(history) + 1
    /\ history'[Len(history')].op = "IsEnabled"

\* C1: in a build without the codec, every SetKey and ReKey call made so
\* far, whatever its arguments, ended by throwing the exception, and the
\* external primitives have been invoked zero times.
C1_NoCodecAlwaysThrows ==
    ~SQLITE_HAS_CODEC =>
        /\ codecLog = <<>>
        /\ \A i \in KeyCallIdx :
              /\ history[i].outcome.kind = "throw"
              /\ history[i].outcome.type = "CSProException"

C1_Witness ==
    /\ ~SQLITE_HAS_CODEC
    /\ Len(history) = 3
    /\ \E i \in KeyCallIdx :
          /\ history[i].op = "SetKey"
          /\ ArgsOf(history[i]) = <<NULL, NULL, 0>>
          /\ history[i].outcome.kind = "throw"
    /\ \E i \in KeyCallIdx :
          /\ history[i].op = "ReKey"
          /\ ArgsOf(history[i]) = <<"db1", "buf1", 0>>
          /\ history[i].outcome.kind = "throw"
    /\ \E i \in KeyCallIdx : ArgsOf(history[i]) = <<"db1", "buf1", 2>>

\* C2: in a build with the codec, every SetKey and ReKey call invoked the
\* external primitive exactly once, with exactly the handle, key pointer and
\* key length the caller gave, and returned to the caller exactly the status
\* the primitive returned; repeated calls are each forwarded.
C2_ForwardsVerbatim ==
    SQLITE_HAS_CODEC =>
        \A i \in KeyCallIdx :
            LET f == ForwardsOf(i) IN
            /\ Len(f) = 1
            /\ ArgsOf(f[1]) = ArgsOf(history[i])
            /\ history[i].outcome = [kind |-> "return", value |-> f[1].rc]

C2_Witness ==
    /\ SQLITE_HAS_CODEC
    /\ Len(codecLog) = 3
    /\ history[1].op = "ReKey" /\ history[2].op = "ReKey"
    /\ ArgsOf(history[1]) = <<"db1", "buf1", 2>>
    /\ ArgsOf(history[2]) = ArgsOf(history[1])
    /\ history[1].outcome.value = 26
    /\ history[2].outcome.value = 0
    /\ history[3].op = "SetKey"
    /\ ArgsOf(history[3]) = <<NULL, NULL, 0>>
    /\ history[3].outcome.value = 1

\* C3: a call of IsEnabled returns TRUE if the codec is compiled in and FALSE
\* otherwise, whatever was called before it, and changes neither the build
\* flag nor anything the codec or the caller owns.
C3_IsEnabledPure ==
    [][EnabledCallStep =>
          /\ history'[Len(history')].outcome =
                [kind |-> "return", value |-> SQLITE_HAS_CODEC]
          /\ UNCHANGED <<SQLITE_HAS_CODEC, codecLog, conn, keyBuf, touched>>]_vars

C3_Witness ==
    /\ ~SQLITE_HAS_CODEC
    /\ Len(history) = 3
    /\ history[1].op = "IsEnabled"
    /\ history[2].op = "SetKey"
    /\ history[3].op = "IsEnabled"
    /\ history[1].outcome = history[3].outcome
    /\ history[3].outcome.value = FALSE

\* C4: in a build with the codec, an invocation made during a SetKey call is
\* of the key-set primitive and one made during a ReKey call is of the re-key
\* primitive; no call reaches both primitives.
C4_RightPrimitive ==
    SQLITE_HAS_CODEC =>
        /\ \A k \in DOMAIN codecLog :
              /\ codecLog[k].at \in KeyCallIdx
              /\ history[codecLog[k].at].op = "SetKey"
                    => codecLog[k].prim = "sqlite3_key"
              /\ history[codecLog[k].at].op = "ReKey"
                    => codecLog[k].prim = "sqlite3_rekey"
        /\ \A i \in KeyCallIdx :
              Cardinality({ForwardsOf(i)[k].prim : k \in DOMAIN ForwardsOf(i)}) <= 1

C4_Witness ==
    /\ SQLITE_HAS_CODEC
    /\ \E i, j \in KeyCallIdx :
          /\ history[i].op = "SetKey"
          /\ history[j].op = "ReKey"
          /\ ForwardsOf(i) # <<>>
          /\ ForwardsOf(j) # <<>>
          /\ ForwardsOf(i)[1].prim = "sqlite3_key"
          /\ ForwardsOf(j)[1].prim = "sqlite3_rekey"

\* C5: in a build without the codec, a SetKey or ReKey call leaves the
\* encryption state of every connection and the contents of the caller's key
\* buffer as they were, and dereferences neither the handle nor the buffer.
C5_NoCodecNoEffect ==
    [][(~SQLITE_HAS_CODEC /\ KeyCallStep) =>
          UNCHANGED <<conn, keyBuf, touched>>]_vars

C5_Witness ==
    /\ ~SQLITE_HAS_CODEC
    /\ \E i, j \in KeyCallIdx :
          /\ history[i].op = "SetKey"
          /\ history[j].op = "ReKey"
          /\ ArgsOf(history[i]) = <<"db1", "buf1", 2>>
          /\ ArgsOf(history[j]) = <<"db1", "buf1", 2>>
    /\ conn["db1"] = <<>>
    /\ keyBuf["buf1"] = <<17, 34>>
    /\ touched = {}

\* C6: with the codec, no SetKey or ReKey call throws, and what the caller
\* gets is the status the primitive returned, failures included; without the
\* codec, no SetKey or ReKey call returns a status.  The only exception ever
\* thrown is the one carrying NoSeeExceptionMessage, in a codec-less build.
C6_FailureKindsDisjoint ==
    /\ SQLITE_HAS_CODEC =>
          \A i \in KeyCallIdx :
              /\ history[i].outcome.kind = "return"
              /\ \E k \in DOMAIN codecLog :
                    /\ codecLog[k].at = i
                    /\ codecLog[k].rc = history[i].outcome.value
    /\ ~SQLITE_HAS_CODEC =>
          \A i \in KeyCallIdx : history[i].outcome.kind # "return"
    /\ \A i \in DOMAIN history :
          history[i].outcome.kind = "throw" =>
              /\ ~SQLITE_HAS_CODEC
              /\ IsKeyOp(history[i])
              /\ history[i].outcome.what = NoSeeExceptionMessage

C6_Witness ==
    /\ SQLITE_HAS_CODEC
    /\ \E i, j \in KeyCallIdx :
          /\ history[i].op = "SetKey"
          /\ history[i].outcome = [kind |-> "return", value |-> 26]
          /\ history[j].op = "ReKey"
          /\ history[j].outcome = [kind |-> "return", value |-> 1]

\* C7: in a build without the codec, SetKey and ReKey throw with one and the
\* same message, the text of NoSeeExceptionMessage, whatever the operation,
\* the arguments and the earlier calls.
C7_FixedMessage ==
    ~SQLITE_HAS_CODEC =>
        \A i \in KeyCallIdx :
            /\ history[i].outcome.kind = "throw"
            /\ history[i].outcome.what =
                  "SQLite encryption is not enabled in this CSPro build."

C7_Witness ==
    /\ ~SQLITE_HAS_CODEC
    /\ Len(history) = 3
    /\ history[1].op = "SetKey" /\ ArgsOf(history[1]) = <<NULL, "buf1", 2>>
    /\ history[2].op = "ReKey" /\ ArgsOf(history[2]) = <<"db1", NULL, 0>>
    /\ history[3].op = "ReKey" /\ ArgsOf(history[3]) = <<"db1", "buf1", 2>>
    /\ history[1].outcome.what = history[2].outcome.what
    /\ history[2].outcome.what = history[3].outcome.what

\* How the wrapper handled call i: how it ended, and what it passed to which
\* primitive.  A returned value is compared with what the primitive returned
\* during this very call.
Handling(i) ==
    LET f == ForwardsOf(i)
        o == history[i].outcome
    IN [kind     |-> o.kind,
        what     |-> IF o.kind = "throw" THEN o.what ELSE "",
        forwards |-> [k \in DOMAIN f |-> <<f[k].prim, ArgsOf(f[k])>>],
        relayed  |-> IF IsKeyOp(history[i]) /\ o.kind = "return"
                     THEN f # <<>> /\ o.value = f[Len(f)].rc
                     ELSE TRUE,
        flag     |-> IF history[i].op = "IsEnabled" THEN <<o.value>> ELSE <<>>]

\* How a call of op with arguments a is handled when it is the first call of
\* a behaviour: a function of the build flag and the call alone.
FirstCallHandling(op, a) ==
    IF op = "IsEnabled"
    THEN [kind |-> "return", what |-> "", forwards |-> <<>>, relayed |-> TRUE,
          flag |-> <<SQLITE_HAS_CODEC>>]
    ELSE IF SQLITE_HAS_CODEC
    THEN [kind |-> "return", what |-> "",
          forwards |-> <<<<IF op = "SetKey" THEN "sqlite3_key" ELSE "sqlite3_rekey", a>>>>,
          relayed |-> TRUE, flag |-> <<>>]
    ELSE [kind |-> "throw", what |-> NoSeeExceptionMessage, forwards |-> <<>>,
          relayed |-> TRUE, flag |-> <<>>]

\* C8: every call, after whatever history, is handled exactly as the same
\* call is handled when it comes first: the handling depends on the build
\* flag and the call's own arguments only, so two calls with the same
\* operation and arguments are handled alike wherever they stand, also after
\* a call that threw.
C8_HistoryIndependent ==
    /\ \A i \in DOMAIN history :
          Handling(i) = FirstCallHandling(history[i].op,
                           IF IsKeyOp(history[i]) THEN ArgsOf(history[i]) ELSE <<>>)
    /\ \A i, j \in KeyCallIdx :
          (history[i].op = history[j].op /\ ArgsOf(history[i]) = ArgsOf(history[j]))
              => Handling(i) = Handling(j)

C8_Witness ==
    /\ SQLITE_HAS_CODEC
    /\ Len(history) = 3
    /\ history[1].op = "SetKey" /\ history[3].op = "SetKey"
    /\ history[2].op = "ReKey"
    /\ ArgsOf(history[1]) = <<"db1", "buf1", 2>>
    /\ ArgsOf(history[3]) = ArgsOf(history[1])
    /\ Len(ForwardsOf(1)) = 1 /\ Len(ForwardsOf(3)) = 1
    /\ history[1].outcome.value = 0
    /\ history[3].outcome.value = 26

\* C9: what IsEnabled reports agrees with what the key operations do: it
\* reports FALSE exactly when they throw and TRUE exactly when they reach the
\* codec, and SetKey and ReKey are gated alike.
C9_CapabilityAgrees ==
    /\ \A i \in EnabledCallIdx : \A j \in KeyCallIdx :
          /\ (history[i].outcome.value = FALSE) <=> (history[j].outcome.kind = "throw")
          /\ (history[i].outcome.value = TRUE) <=> (ForwardsOf(j) # <<>>)
    /\ \A j, k \in KeyCallIdx :
          /\ history[j].outcome.kind = history[k].outcome.kind
          /\ (ForwardsOf(j) = <<>>) <=> (ForwardsOf(k) = <<>>)

C9_Witness ==
    /\ Len(history) = 3
    /\ \E i \in EnabledCallIdx : history[i].outcome.value = TRUE
    /\ \E j \in KeyCallIdx : history[j].op = "SetKey" /\ ForwardsOf(j) # <<>>
    /\ \E j \in KeyCallIdx : history[j].op = "ReKey" /\ ForwardsOf(j) # <<>>

====
